---------------------------- MODULE Spec2Model ----------------------------
(***************************************************************************)
(* Model of openapi-cli (src/openapi-cli.py): a command line interface     *)
(* generated at start-up from the OpenAPI description of a service.        *)
(*                                                                         *)
(* Strings are sequences of tokens; a token stands for one character (or   *)
(* for an indivisible run of characters without braces).  Parameter names  *)
(* are lowercase identifiers of one token, for which the keyword name that *)
(* click derives from "--<name>" is the name itself.                       *)
(***************************************************************************)
EXTENDS Naturals, Sequences, FiniteSets, TLC

VARIABLES
    pc,            \* position of the process
    fetched,       \* create_cli: the response to the GET of /openapi.json
    openapi_json,  \* create_cli: the parsed description (NoDoc before/without it)
    main,          \* create_cli: the command tree returned (NoTree before/without it)
    argv,          \* the command line: the leaf it names and the options it gives
    command,       \* the command whose callback click has called (NoCommand if none)
    kwargs,        \* func: the keyword arguments click calls func with
    requests,      \* every HTTP request issued so far, in order
    response,      \* func: the response to the request of the leaf command
    stdout,        \* what the process printed
    error          \* the error that ended the run (NoError if none)

vars == <<pc, fetched, openapi_json, main, argv, command, kwargs, requests,
          response, stdout, error>>

---------------------------------------------------------------------------
(* Bounds of the model.                                                    *)

\* Longest path template of SpecFunc, counted in parts (see TemplateParts).
MaxParts == 3

---------------------------------------------------------------------------
(* Python values and their string form.                                    *)

None == [t |-> "none", n |-> 0, s |-> <<>>]
IntV(n) == [t |-> "int", n |-> n, s |-> <<>>]
StrV(s) == [t |-> "str", n |-> 0, s |-> s]
BoolV(b) == [t |-> "bool", n |-> IF b THEN 1 ELSE 0, s |-> <<>>]

\* The decimal digits of a natural number.
DigitToken(d) ==
    CASE d = 0 -> "0" [] d = 1 -> "1" [] d = 2 -> "2" [] d = 3 -> "3"
      [] d = 4 -> "4" [] d = 5 -> "5" [] d = 6 -> "6" [] d = 7 -> "7"
      [] d = 8 -> "8" [] OTHER -> "9"

RECURSIVE Digits(_)
Digits(n) ==
    IF n < 10 THEN <<DigitToken(n)>>
    ELSE Digits(n \div 10) \o <<DigitToken(n % 10)>>

\* A list of one-character strings, as list(raw) builds it.
ListV(s) == [t |-> "list", n |-> 0, s |-> s]

\* The items of a list in repr form, separated by ", ".
RECURSIVE repr_items(_)
repr_items(s) ==
    IF s = <<>> THEN <<>>
    ELSE <<"'", Head(s), "'">>
         \o (IF Len(s) > 1 THEN <<", ">> ELSE <<>>) \o repr_items(Tail(s))

\* str(value), as func applies it to a keyword argument (line 74).
str(v) ==
    CASE v.t = "none" -> <<"None">>
      [] v.t = "int" -> Digits(v.n)
      [] v.t = "bool" -> IF v.n = 1 THEN <<"True">> ELSE <<"False">>
      [] v.t = "list" -> <<"[">> \o repr_items(v.s) \o <<"]">>
      [] OTHER -> v.s

\* str.replace(old, new, 1): the first occurrence only.
RECURSIVE replace_first(_, _, _)
replace_first(s, old, new) ==
    IF Len(s) < Len(old) THEN s
    ELSE IF SubSeq(s, 1, Len(old)) = old
         THEN new \o SubSeq(s, Len(old) + 1, Len(s))
         ELSE <<Head(s)>> \o replace_first(Tail(s), old, new)

\* Python's str.replace(old, new) for a non-empty old: every non-overlapping
\* occurrence, scanning from the left.
RECURSIVE replace(_, _, _)
replace(s, old, new) ==
    IF Len(s) < Len(old) THEN s
    ELSE IF SubSeq(s, 1, Len(old)) = old
         THEN new \o replace(SubSeq(s, Len(old) + 1, Len(s)), old, new)
         ELSE <<Head(s)>> \o replace(Tail(s), old, new)

---------------------------------------------------------------------------
(* create_command.func: the body of a leaf command.                        *)

BASE_URL == <<"http://localhost:8000">>

\* The empty dict.
EmptyDict == [k \in {} |-> 0]

\* The del forgotten: the dict keeps the key.
del_kept(d, k) == d

\* del d[k]
del(d, k) == [x \in DOMAIN d \ {k} |-> d[x]]

\* filter(lambda parameter: parameter["in"] == "path", parameters)
IsPathParameter(parameter) == parameter["in"] = "path"

path_params_of(parameters) == SelectSeq(parameters, IsPathParameter)

\* The loop of lines 72-75 from its i-th path parameter on: the request path
\* and the keyword arguments it ends with, or the KeyError it raises.
RECURSIVE template_loop(_, _, _, _)
template_loop(request_path, kw, path_params, i) ==
    IF i > Len(path_params)
    THEN [raised |-> "", request_path |-> request_path, kwargs |-> kw]
    ELSE LET name == path_params[i].name IN
         IF name \notin DOMAIN kw
         THEN [raised |-> "KeyError", request_path |-> request_path, kwargs |-> kw]
         ELSE template_loop(
                  replace(request_path, <<"{", name, "}">>, str(kw[name])),
                  del(kw, name), path_params, i + 1)

\* method.upper()
upper(method) ==
    CASE method = "get" -> "GET"
      [] method = "post" -> "POST"
      [] method = "delete" -> "DELETE"
      [] OTHER -> method

\* func up to the call of httpx.request: the request it issues, or what it raises.
func_request(method, path, parameters, kw) ==
    LET t == template_loop(path, kw, path_params_of(parameters), 1) IN
    IF t.raised # ""
    THEN [raised |-> t.raised]
    ELSE [raised |-> "",
          by |-> "func",
          method |-> upper(method),
          url |-> BASE_URL \o t.request_path,
          params |-> t.kwargs]

---------------------------------------------------------------------------
(* str_to_type and add_parameters: the options of a leaf command.          *)

\* dict.get(key, default)
get(d, key, default) == IF key \in DOMAIN d THEN d[key] ELSE default

\* str_to_type falling back to str for a name it does not know.
str_to_type_lax(type_name) ==
    CASE type_name = "integer" -> "int"
      [] type_name = "boolean" -> "bool"
      [] type_name = "array" -> "list"
      [] OTHER -> "str"

\* The Python type a schema type name stands for; "TypeError" for any other.
str_to_type(type_name) ==
    CASE type_name = "integer" -> "int"
      [] type_name = "boolean" -> "bool"
      [] type_name = "string" -> "str"
      [] type_name = "array" -> "list"
      [] OTHER -> "TypeError"

\* The option with required left at click's own default, False.
option_of_optional(parameter) ==
    [name |-> parameter.name,
     default |-> get(parameter.schema, "default", None),
     required |-> FALSE,
     type |-> str_to_type(get(parameter.schema, "type", "string"))]

\* The option with the schema's default not passed on.
option_of_no_default(parameter) ==
    [name |-> parameter.name,
     default |-> None,
     required |-> get(parameter, "required", TRUE),
     type |-> str_to_type(get(parameter.schema, "type", "string"))]

\* The click.option of one parameter (lines 49-55).
option_of(parameter) ==
    [name |-> parameter.name,
     default |-> get(parameter.schema, "default", None),
     required |-> get(parameter, "required", TRUE),
     type |-> str_to_type(get(parameter.schema, "type", "string"))]

\* add_parameters: one option per parameter, or the TypeError of str_to_type.
add_parameters(parameters) ==
    LET options == [i \in 1..Len(parameters) |-> option_of(parameters[i])] IN
    IF \E i \in 1..Len(options) : options[i].type = "TypeError"
    THEN [raised |-> "TypeError", options |-> <<>>]
    ELSE [raised |-> "", options |-> options]

\* create_command: the leaf command of one operation, or what building it raises.
create_command(method, path, parameters) ==
    LET bound == add_parameters(parameters) IN
    [raised |-> bound.raised,
     name |-> path,
     method |-> method,
     path |-> path,
     parameters |-> parameters,
     options |-> bound.options]

---------------------------------------------------------------------------
(* click: parsing the command line of a leaf command against its options.  *)

Bad == [t |-> "bad", n |-> 0, s |-> <<>>]

DigitTokens == {"0", "1", "4"}

DigitValue(c) == CASE c = "0" -> 0 [] c = "1" -> 1 [] OTHER -> 4

\* int(raw) for a string of digits.
RECURSIVE IntOf(_)
IntOf(raw) ==
    IF Len(raw) = 1 THEN DigitValue(raw[1])
    ELSE 10 * IntOf(SubSeq(raw, 1, Len(raw) - 1)) + DigitValue(raw[Len(raw)])

\* The value click's parameter type makes of a raw command line string.
convert(type, raw) ==
    CASE type = "int" ->
             IF raw # <<>> /\ \A i \in 1..Len(raw) : raw[i] \in DigitTokens
             THEN IntV(IntOf(raw)) ELSE Bad
      [] type = "bool" ->
             IF raw = <<"1">> THEN BoolV(TRUE)
             ELSE IF raw = <<"0">> THEN BoolV(FALSE) ELSE Bad
      [] type = "list" -> ListV(raw)
      [] OTHER -> StrV(raw)

\* The value of one option: the converted command line string, else the default.
option_value(option, args) ==
    IF option.name \in DOMAIN args
    THEN convert(option.type, args[option.name])
    ELSE option.default

\* The errors click can end the parse with: a string its type rejects, or a
\* required option that has no value.
parse_errors(options, args) ==
    {[kind |-> "BadParameter", param |-> options[i].name] :
        i \in {j \in 1..Len(options) : option_value(options[j], args) = Bad}}
    \cup
    {[kind |-> "MissingParameter", param |-> options[i].name] :
        i \in {j \in 1..Len(options) :
                  options[j].required /\ option_value(options[j], args) = None}}

\* The keyword arguments of a successful parse: one per option name.
parse_kwargs(options, args) ==
    [name \in {options[i].name : i \in 1..Len(options)} |->
        option_value(options[CHOOSE i \in 1..Len(options) : options[i].name = name],
                     args)]

---------------------------------------------------------------------------
(* httpx: responses.                                                       *)

\* A response that never arrived: the transport failed.
TransportFault == [fault |-> TRUE, status_code |-> 0]

\* response.raise_for_status() passes the 2xx codes only.
is_success(r) == r.status_code \in 200..299

---------------------------------------------------------------------------
(* create_cli: fetching the description and building the command tree.     *)

NoDoc == [unset |-> TRUE]
NoTree == [unset |-> TRUE]
NoCommand == [unset |-> TRUE]
NoError == [kind |-> "", param |-> ""]
Raised(kind) == [kind |-> kind, param |-> ""]

\* A body that is not JSON.
NotJson == [notjson |-> TRUE]

\* add_command dropping the commands the group had.
add_command_only(group, name, cmd) ==
    [group EXCEPT !.commands = [n \in {name} |-> cmd]]

\* group.add_command(cmd): the commands of a group are a dict keyed by name.
add_command(group, name, cmd) ==
    [group EXCEPT !.commands =
        [n \in DOMAIN group.commands \cup {name} |->
            IF n = name THEN cmd ELSE group.commands[n]]]

\* create_group (lines 83-88)
create_group(method, documentation) ==
    [name |-> method, help |-> documentation, commands |-> EmptyDict]

\* The version command of the meta group (lines 114-133).
VersionCommand == [name |-> <<"version">>, method |-> "", path |-> <<>>,
                   parameters |-> <<>>, options |-> <<>>]

\* The meta group with its version command (lines 103-115).
MetaGroup ==
    add_command(create_group("meta", <<"Various meta endpoints.">>),
                <<"version">>, VersionCommand)

\* reduce(set.union, (set(obj.keys()) for obj in paths.values())), lines 135-137;
\* with no initial value, reduce raises TypeError on an empty iterable.
method_keys_of(paths) ==
    IF DOMAIN paths = {}
    THEN [raised |-> "TypeError", keys |-> {}]
    ELSE [raised |-> "", keys |-> UNION {DOMAIN paths[p] : p \in DOMAIN paths}]

\* The (path, method) pairs the loops of lines 145-146 visit.
operations_of(paths) ==
    {pm \in (DOMAIN paths) \X UNION {DOMAIN paths[q] : q \in DOMAIN paths} :
        pm[2] \in DOMAIN paths[pm[1]]}

\* Lines 145-151 for the operations still to visit: each leaf command is added
\* to the group of its method; building a leaf may raise.
RECURSIVE add_leaves(_, _, _)
add_leaves(methods, paths, todo) ==
    IF todo = {} THEN [raised |-> "", methods |-> methods]
    ELSE LET pm == CHOOSE x \in todo : TRUE
             path == pm[1]
             method == pm[2]
             parameters == get(paths[path][method], "parameters", <<>>)
             cmd == create_command(method, path, parameters)
         IN  IF cmd.raised # ""
             THEN [raised |-> cmd.raised, methods |-> methods]
             ELSE add_leaves(
                      [methods EXCEPT ![method] = add_command(@, path, cmd)],
                      paths, todo \ {pm})

\* Lines 138-143: one group per method key, each added to the root.
groups_of(method_keys) ==
    [method \in method_keys |->
        create_group(method, <<"Collection of ", method, " calls">>)]

\* openapi_json.get("info", {}).get("title", ""): a missing title read as empty.
title_or_empty(doc) ==
    [raised |-> "",
     title |-> IF "info" \in DOMAIN doc /\ "title" \in DOMAIN doc.info
               THEN doc.info.title ELSE <<>>]

\* openapi_json["info"]["title"], line 99: a KeyError without the member.
title_of(doc) ==
    IF "info" \in DOMAIN doc /\ "title" \in DOMAIN doc.info
    THEN [raised |-> "", title |-> doc.info.title]
    ELSE [raised |-> "KeyError", title |-> <<>>]

\* openapi_json["paths"], line 136: a KeyError without the member.
paths_of(doc) ==
    IF "paths" \in DOMAIN doc
    THEN [raised |-> "", paths |-> doc.paths]
    ELSE [raised |-> "KeyError", paths |-> EmptyDict]

\* The root group with the meta group and the method groups (lines 98-106, 142-143).
root_of(title, methods) ==
    [name |-> "main",
     help |-> title \o <<"\n">>,
     commands |-> [n \in {"meta"} \cup DOMAIN methods |->
                      IF n \in DOMAIN methods THEN methods[n] ELSE MetaGroup]]

\* create_cli after the description arrived (lines 96-153): the tree, or what it raises.
synthesize(doc) ==
    LET title == title_of(doc)
        paths == paths_of(doc)
    IN  IF title.raised # ""
        THEN [raised |-> title.raised, main |-> NoTree]
        ELSE IF paths.raised # ""
        THEN [raised |-> paths.raised, main |-> NoTree]
        ELSE LET mk == method_keys_of(paths.paths) IN
             IF mk.raised # ""
             THEN [raised |-> mk.raised, main |-> NoTree]
             ELSE LET built == add_leaves(groups_of(mk.keys), paths.paths,
                                          operations_of(paths.paths))
                  IN  IF built.raised # ""
                      THEN [raised |-> built.raised, main |-> NoTree]
                      ELSE [raised |-> "", main |-> root_of(title.title, built.methods)]

\* create_cli (lines 91-153) on the response to its GET of /openapi.json.
create_cli_result(r) ==
    IF r.fault
    THEN [raised |-> "ConnectError", doc |-> NoDoc, main |-> NoTree]
    ELSE IF ~is_success(r)
    THEN [raised |-> "HTTPStatusError", doc |-> NoDoc, main |-> NoTree]
    ELSE IF r.body = NotJson
    THEN [raised |-> "JSONDecodeError", doc |-> NoDoc, main |-> NoTree]
    ELSE LET made == synthesize(r.body) IN
         [raised |-> made.raised, doc |-> r.body, main |-> made.main]

---------------------------------------------------------------------------
(* Inputs: the descriptions a service may answer with, command lines,      *)
(* responses.                                                              *)

Methods == {"get", "post"}

PathA == <<"/", "a">>
PathB == <<"/", "b", "/", "{", "a", "}">>
Paths == {PathA, PathB}

\* Operations of the descriptions of Spec: without parameters; with a required
\* path parameter and a defaulted query parameter; with a type str_to_type
\* does not know.
OpPlain == [summary |-> <<"plain">>]
OpItem ==
    [parameters |->
        <<[name |-> "a", in |-> "path", required |-> TRUE,
           schema |-> [type |-> "integer"]],
          [name |-> "b", in |-> "query",
           schema |-> [type |-> "string", default |-> StrV(<<"d">>)]]>>]
OpUnknownType ==
    [parameters |->
        <<[name |-> "a", in |-> "query", required |-> FALSE,
           schema |-> [type |-> "number"]]>>]
Operations == {OpPlain, OpItem, OpUnknownType}

\* Every mapping from some of the keys to values of the set.
Dicts(keyset, values) == UNION {[ks -> values] : ks \in SUBSET keyset}

\* The path items: some methods, each with an operation.
PathItems == Dicts(Methods, Operations)

\* The `paths` objects: some paths, each with a path item.
PathsObjects == Dicts(Paths, PathItems)

\* The `info` objects: with or without title and version.
InfoObjects == Dicts({"title", "version"}, {<<"Bookstore">>})

\* A description with the top-level members given; each is given as a set that
\* holds the member, or nothing when the description lacks it.
Description(info, openapi, paths) ==
    [k \in {x \in {"info"} : info # {}}
         \cup {x \in {"openapi"} : openapi # {}}
         \cup {x \in {"paths"} : paths # {}} |->
        CASE k = "info" -> CHOOSE i \in info : TRUE
          [] k = "openapi" -> CHOOSE o \in openapi : TRUE
          [] OTHER -> CHOOSE p \in paths : TRUE]

\* A set's members one at a time, or none.
Optional(S) == {{}} \cup {{x} : x \in S}

\* The descriptions of Spec: any of the required members may be missing.
Docs ==
    {Description(i, o, p) :
        i \in Optional(InfoObjects),
        o \in Optional({<<"3.0.2">>}),
        p \in Optional(PathsObjects)}

\* The HTTP status codes of the model.
StatusCodes == {200, 301, 404, 500}

\* The description of three operations: GET /a, GET /b/{a}, POST /a.
SampleDoc ==
    Description({[title |-> <<"Bookstore">>, version |-> <<"Bookstore">>]},
                {<<"3.0.2">>},
                {[p \in Paths |->
                    IF p = PathA THEN [get |-> OpPlain, post |-> OpPlain]
                    ELSE [get |-> OpItem]]})

\* What the GET of /openapi.json may come back with: no response, or a status
\* code with a body; a service may send a description with any status code.
FetchResponses(docs) ==
    {TransportFault}
    \cup {[fault |-> FALSE, status_code |-> c, body |-> d] :
            c \in StatusCodes \ {200}, d \in {NotJson, SampleDoc}}
    \cup {[fault |-> FALSE, status_code |-> 200, body |-> d] : d \in docs \cup {NotJson}}

\* What the request of a leaf command may come back with.
InvokeResponses ==
    {TransportFault}
    \cup {[fault |-> FALSE, status_code |-> c, text |-> t] :
            c \in StatusCodes, t \in {<<"{\"detail\":\"Not Found\"}">>, <<"[]">>}}

\* The strings given for options on the command line.
RawValues == {<<"1">>, <<"0", "4">>, <<"x">>}

\* The command lines of a leaf command: some of its options, each with a string.
Args(options) == Dicts({options[i].name : i \in 1..Len(options)}, RawValues)

\* os.environ: any of the three variables may be set.
Environments == Dicts({"VERSION", "LICENSE", "AUTHORS"}, {"set"})

---------------------------------------------------------------------------
(* The process: main = create_cli(); main().                               *)

NoResponse == [fault |-> FALSE, status_code |-> 0]
NoArgv == [group |-> "", name |-> <<>>, options |-> EmptyDict]

\* httpx.get(spec_url), line 94.
FetchRequest ==
    [by |-> "create_cli", method |-> "GET",
     url |-> BASE_URL \o <<"/openapi.json">>, params |-> EmptyDict]

\* A request sent a second time when the first got no answer.
send_twice(log, request) == Append(Append(log, request), request)

\* The requests issued once one more is sent.
send(log, request) == Append(log, request)

Init ==
    /\ pc = "start"
    /\ fetched = NoResponse
    /\ openapi_json = NoDoc
    /\ main = NoTree
    /\ argv = NoArgv
    /\ command = NoCommand
    /\ kwargs = EmptyDict
    /\ requests = <<>>
    /\ response = NoResponse
    /\ stdout = <<>>
    /\ error = NoError

\* create_cli (lines 91-153), against a service that answers with one of docs.
create_cli(docs) ==
    /\ pc = "start"
    /\ \E r \in FetchResponses(docs) :
          LET made == create_cli_result(r) IN
          /\ requests' = send(requests, FetchRequest)
          /\ fetched' = r
          /\ openapi_json' = made.doc
          /\ main' = made.main
          /\ error' = IF made.raised = "" THEN NoError ELSE Raised(made.raised)
          /\ pc' = IF made.raised = "" THEN "main" ELSE "exit"
    /\ UNCHANGED <<argv, command, kwargs, response, stdout>>

\* The text of the version command (lines 116-133).
version_lines(doc, env) ==
    <<doc.info.title, " ", doc.info.version, " (OpenAPI: ", doc.openapi, ")", "\n",
      "Generated using openapi-cli (OpenAPI CLI) ",
      get(env, "VERSION", "unknown_version"), ".", "\n",
      "\n",
      get(env, "LICENSE", "unknown_license"), "\n",
      "\n",
      "Written by ", get(env, "AUTHORS", "unknown_authors")>>

\* main(): the command line names `meta version` (lines 115-133).
version ==
    /\ pc = "main"
    /\ argv' = [group |-> "meta", name |-> <<"version">>, options |-> EmptyDict]
    /\ command' = VersionCommand
    /\ \E env \in Environments :
          IF "version" \in DOMAIN openapi_json.info /\ "openapi" \in DOMAIN openapi_json
          THEN /\ stdout' = Append(stdout, version_lines(openapi_json, env))
               /\ error' = NoError
          ELSE /\ stdout' = stdout
               /\ error' = Raised("KeyError")
    /\ pc' = "exit"
    /\ UNCHANGED <<fetched, openapi_json, main, kwargs, requests, response>>

\* main(): the command line names no command of the tree; click reports the
\* usage error and no callback runs.
no_such_command ==
    /\ pc = "main"
    /\ error' = Raised("UsageError")
    /\ pc' = "exit"
    /\ UNCHANGED <<fetched, openapi_json, main, argv, command, kwargs, requests,
                   response, stdout>>

\* main(): the command line names the leaf of a method group; click parses its
\* options and either reports an error or calls func with the keyword arguments.
leaf_command ==
    /\ pc = "main"
    /\ \E method \in DOMAIN main.commands \ {"meta"} :
       \E path \in DOMAIN main.commands[method].commands :
          LET cmd == main.commands[method].commands[path] IN
          \E args \in Args(cmd.options) :
             LET errors == parse_errors(cmd.options, args) IN
             /\ argv' = [group |-> method, name |-> path, options |-> args]
             /\ IF errors # {}
                THEN /\ \E e \in errors : error' = e
                     /\ pc' = "exit"
                     /\ UNCHANGED <<command, kwargs>>
                ELSE /\ command' = cmd
                     /\ kwargs' = parse_kwargs(cmd.options, args)
                     /\ pc' = "func"
                     /\ error' = NoError
    /\ UNCHANGED <<fetched, openapi_json, main, requests, response, stdout>>

\* func with response.raise_for_status() before the print.
func_outcome_checked(r) ==
    IF r.fault
    THEN [raised |-> "ConnectError", printed |-> <<>>]
    ELSE IF ~is_success(r)
    THEN [raised |-> "HTTPStatusError", printed |-> <<>>]
    ELSE [raised |-> "", printed |-> <<r.text>>]

\* Lines 77-78 once the response is there: httpx.request raises on a transport
\* fault; any response is printed as it is.
func_outcome(r) ==
    IF r.fault
    THEN [raised |-> "ConnectError", printed |-> <<>>]
    ELSE [raised |-> "", printed |-> <<r.text>>]

\* func up to httpx.request (lines 67-77): template the path and issue the
\* request, unless the templating raises.
func ==
    /\ pc = "func"
    /\ LET rq == func_request(command.method, command.path, command.parameters, kwargs)
       IN  IF rq.raised # ""
           THEN /\ error' = Raised(rq.raised)
                /\ pc' = "exit"
                /\ UNCHANGED requests
           ELSE /\ requests' = send(requests,
                       [by |-> rq.by, method |-> rq.method, url |-> rq.url,
                        params |-> rq.params])
                /\ pc' = "request"
                /\ UNCHANGED error
    /\ UNCHANGED <<fetched, openapi_json, main, argv, command, kwargs, response, stdout>>

\* func from the return of httpx.request on (lines 77-78).
func_print ==
    /\ pc = "request"
    /\ \E r \in InvokeResponses :
          /\ response' = r
          /\ error' = IF func_outcome(r).raised = "" THEN NoError
                      ELSE Raised(func_outcome(r).raised)
          /\ stdout' = stdout \o func_outcome(r).printed
    /\ pc' = "exit"
    /\ UNCHANGED <<fetched, openapi_json, main, argv, command, kwargs, requests>>

Next ==
    \/ create_cli(Docs)
    \/ version
    \/ no_such_command
    \/ leaf_command
    \/ func
    \/ func_print

Spec == Init /\ [][Next]_vars

---------------------------------------------------------------------------
(* SpecOptions: the process against descriptions of one operation, GET of  *)
(* PathB, whose parameters range over the forms a ParameterSpec can take.  *)

\* A schema object; each member is given as a set holding it, or nothing.
Schema(type, default) ==
    [k \in {x \in {"type"} : type # {}} \cup {x \in {"default"} : default # {}} |->
        IF k = "type" THEN CHOOSE t \in type : TRUE ELSE CHOOSE d \in default : TRUE]

\* A parameter object; `required` is given as a set holding it, or nothing.
Parameter(name, in, required, schema) ==
    [k \in {"name", "in", "schema"} \cup {x \in {"required"} : required # {}} |->
        CASE k = "name" -> name
          [] k = "in" -> in
          [] k = "schema" -> schema
          [] OTHER -> CHOOSE r \in required : TRUE]

\* The type names of the descriptions: the four str_to_type knows and one more.
TypeNames == {"integer", "boolean", "string", "array", "number"}

\* A default of the shape of the type.
DefaultOf(type) ==
    CASE type = {"integer"} -> IntV(4)
      [] type = {"boolean"} -> BoolV(TRUE)
      [] type = {"array"} -> ListV(<<"d">>)
      [] type = {"number"} -> IntV(4)
      [] OTHER -> StrV(<<"d">>)

Schemas ==
    UNION {{Schema(t, {}), Schema(t, {DefaultOf(t)})} : t \in Optional(TypeNames)}

\* Every form of a parameter named "a".
FirstParameters ==
    {Parameter("a", in, r, sch) :
        in \in {"path", "query"}, r \in Optional(BOOLEAN), sch \in Schemas}

\* The parameters named "b" that may follow it.
SecondParameters ==
    {Parameter("b", in, r, sch) :
        in \in {"path", "query"}, r \in Optional({FALSE}),
        sch \in {Schema({}, {}), Schema({"integer"}, {IntV(4)})}}

OptionParameterLists ==
    {<<>>} \cup {<<p>> : p \in FirstParameters}
           \cup {<<p, q>> : p \in FirstParameters, q \in SecondParameters}

\* The description of one operation.
OperationDoc(path, method, parameters) ==
    Description({[title |-> <<"Bookstore">>, version |-> <<"0.0.1">>]},
                {<<"3.0.2">>},
                {[p \in {path} |-> [m \in {method} |-> [parameters |-> parameters]]]})

OptionDocs == {OperationDoc(PathB, "get", ps) : ps \in OptionParameterLists}

NextOptions ==
    \/ create_cli(OptionDocs)
    \/ version
    \/ no_such_command
    \/ leaf_command
    \/ func
    \/ func_print

SpecOptions == Init /\ [][NextOptions]_vars

---------------------------------------------------------------------------
(* SpecFunc: func of create_command(method, path, documentation,           *)
(* parameters), called with any keyword arguments for its parameters.      *)

\* The pieces path templates are put together from.
TemplateParts ==
    {<<"/">>, <<"a">>, <<"{">>, <<"}">>, <<"{", "a", "}">>, <<"{", "b", "}">>}

\* The templates of at most n parts.
RECURSIVE Templates(_)
Templates(n) ==
    IF n = 0 THEN {<<>>}
    ELSE LET shorter == Templates(n - 1) IN
         shorter \cup {t \o part : t \in shorter, part \in TemplateParts}

\* The parameters of func: only name and location are read by it.
FuncParameters ==
    {Parameter(name, in, {}, Schema({}, {})) :
        name \in {"a", "b"}, in \in {"path", "query"}}

\* The parameter lists, names repeated or not.
FuncParameterLists ==
    {<<>>} \cup {<<p>> : p \in FuncParameters}
           \cup {<<p, q>> : p \in FuncParameters, q \in FuncParameters}

\* The values of keyword arguments: unset, an integer, and strings without
\* and with braces.
FuncValues == {None, IntV(4), StrV(<<"b">>), StrV(<<"{", "b", "}">>)}

names_of(parameters) == {parameters[i].name : i \in 1..Len(parameters)}

InitFunc ==
    /\ pc = "func"
    /\ fetched = NoResponse
    /\ openapi_json = NoDoc
    /\ main = NoTree
    /\ \E path \in Templates(MaxParts) :
       \E parameters \in FuncParameterLists :
          /\ command = create_command("get", path, parameters)
          /\ argv = [group |-> "get", name |-> path, options |-> EmptyDict]
          /\ kwargs \in [names_of(parameters) -> FuncValues]
    /\ requests = <<>>
    /\ response = NoResponse
    /\ stdout = <<>>
    /\ error = NoError

NextFunc == func

SpecFunc == InitFunc /\ [][NextFunc]_vars

---------------------------------------------------------------------------
(* Properties of func (SpecFunc).                                          *)

\* The parameter names whose location is `path`.
PathNames == {command.parameters[i].name :
                 i \in {j \in 1..Len(command.parameters) :
                          command.parameters[j]["in"] = "path"}}

\* The path values of the call: the keyword arguments of the path parameters.
PathValues == [name \in PathNames \cap DOMAIN kwargs |-> kwargs[name]]

\* The request func issued, its query parameters and its path.
Issued == requests[Len(requests)]
QueryValues == Issued.params
RenderedPath == SubSeq(Issued.url, Len(BASE_URL) + 1, Len(Issued.url))

\* The string has no brace.
BraceFree(string) == \A i \in 1..Len(string) : string[i] \notin {"{", "}"}

\* The template with every {name} whose name is a key of the values replaced by
\* the string form of its value, read from the left; all else as it is.
RECURSIVE Render(_, _)
Render(template, values) ==
    IF template = <<>> THEN <<>>
    ELSE IF /\ Len(template) >= 3
            /\ template[1] = "{"
            /\ template[3] = "}"
            /\ template[2] \in DOMAIN values
         THEN str(values[template[2]])
              \o Render(SubSeq(template, 4, Len(template)), values)
         ELSE <<Head(template)>> \o Render(Tail(template), values)

\* C8 as stated: for any template and brace-free path values, the path of the
\* request is the template with the placeholders of the path values replaced.
C8_AnyTemplate ==
    (pc = "request" /\ \A k \in DOMAIN PathValues : BraceFree(str(PathValues[k])))
        => RenderedPath = Render(command.path, PathValues)

\* Some opening brace of the template follows another with no closing brace
\* between the two.
Nested(template) ==
    \E i, j \in 1..Len(template) :
        /\ i < j
        /\ template[i] = "{"
        /\ template[j] = "{"
        /\ \A k \in (i + 1)..(j - 1) : template[k] # "}"

\* func's templating of /items/{id}/sub/{sub} with id "42" and sub "x".
ItemsSubExample ==
    template_loop(<<"/items/", "{", "id", "}", "/sub/", "{", "sub", "}">>,
                  [id |-> StrV(<<"4", "2">>), sub |-> StrV(<<"x">>)],
                  <<[name |-> "id", in |-> "path"], [name |-> "sub", in |-> "path"]>>,
                  1)

\* C8, amended: for any template without nested braces and brace-free path
\* values, the path of the request is the template with every {name} of the
\* path values replaced by the string form of the value and all else left as
\* it is; without path values the template is the path, whatever the template;
\* /items/{id}/sub/{sub} with id "42" and sub "x" gives /items/42/sub/x.
C8_FlatTemplate ==
    /\ (pc = "request" /\ ~Nested(command.path)
          /\ \A k \in DOMAIN PathValues : BraceFree(str(PathValues[k])))
         => RenderedPath = Render(command.path, PathValues)
    /\ (pc = "request" /\ PathNames = {}) => RenderedPath = command.path
    /\ ItemsSubExample.raised = ""
    /\ ItemsSubExample.request_path = <<"/items/", "4", "2", "/sub/", "x">>

\* Two different placeholders of a template were replaced, one by an integer.
C8_Witness ==
    /\ pc = "request"
    /\ command.path = <<"{", "a", "}", "/", "{", "b", "}">>
    /\ DOMAIN PathValues = {"a", "b"}
    /\ PathValues["a"] = IntV(4)
    /\ PathValues["b"] = StrV(<<"b">>)
    /\ RenderedPath = <<"4", "/", "b">>

\* Two path parameters of the list have the same name.
RepeatedPathName ==
    \E i, j \in 1..Len(command.parameters) :
        /\ i < j
        /\ command.parameters[i].name = command.parameters[j].name
        /\ command.parameters[i]["in"] = "path"
        /\ command.parameters[j]["in"] = "path"

---------------------------------------------------------------------------
(* Properties of the process (Spec).                                       *)

HasTitle == "info" \in DOMAIN openapi_json /\ "title" \in DOMAIN openapi_json.info
HasVersion == "info" \in DOMAIN openapi_json /\ "version" \in DOMAIN openapi_json.info
HasOpenapi == "openapi" \in DOMAIN openapi_json
HasPaths == "paths" \in DOMAIN openapi_json

\* The positions in requests of the requests of create_cli and of func.
FetcherRequests == {i \in 1..Len(requests) : requests[i].by = "create_cli"}
InvokerRequests == {i \in 1..Len(requests) : requests[i].by = "func"}

\* Some parameter of some operation names a type str_to_type does not map.
HasUnknownType(paths) ==
    \E p \in DOMAIN paths : \E m \in DOMAIN paths[p] :
        LET parameters == get(paths[p][m], "parameters", <<>>) IN
        \E i \in 1..Len(parameters) :
            get(parameters[i].schema, "type", "string")
                \notin {"integer", "boolean", "string", "array"}

\* C2 as stated: a description without info.title, info.version, openapi or
\* paths ends the run in create_cli with an error, no tree and no command run.
C2_AnyRequiredMember ==
    (openapi_json # NoDoc /\ ~(HasTitle /\ HasVersion /\ HasOpenapi /\ HasPaths))
        => (pc = "exit" /\ error # NoError /\ main = NoTree /\ command = NoCommand)

\* C2, amended: a description without info.title or paths ends the run in
\* create_cli with a KeyError, no tree, no command run and only the fetch
\* issued; one that lacks only info.version or openapi gets its tree, and the
\* version command then fails with a KeyError and prints nothing.
C2_TitleOrPaths ==
    /\ (openapi_json # NoDoc /\ ~(HasTitle /\ HasPaths))
         => /\ pc = "exit"
            /\ error = Raised("KeyError")
            /\ main = NoTree
            /\ command = NoCommand
            /\ requests = <<FetchRequest>>
    /\ (main # NoTree /\ ~(HasVersion /\ HasOpenapi) /\ argv.group = "meta")
         => (pc = "exit" /\ error = Raised("KeyError") /\ stdout = <<>>)

\* A description with everything but paths has ended the run with a KeyError.
C2_Witness ==
    /\ pc = "exit"
    /\ openapi_json # NoDoc
    /\ HasTitle /\ HasVersion /\ HasOpenapi /\ ~HasPaths
    /\ error = Raised("KeyError")

\* C3: when the fetch fails in transport, or answers with a status code that
\* is not a success, or the description names an unknown type in a parameter,
\* the run ends in create_cli with an error: no tree is returned, no command
\* called and no request of func issued.
C3_FailFast ==
    (/\ pc # "start"
     /\ \/ fetched.fault
        \/ fetched.status_code \notin 200..299
        \/ (openapi_json # NoDoc /\ HasPaths /\ HasUnknownType(openapi_json.paths)))
        => /\ pc = "exit"
           /\ error # NoError
           /\ main = NoTree
           /\ command = NoCommand
           /\ InvokerRequests = {}

\* A description complete but for an unknown type, beside an operation that is
\* fine, has ended the run with a TypeError.
C3_Witness ==
    /\ pc = "exit"
    /\ openapi_json # NoDoc
    /\ HasTitle /\ HasVersion /\ HasOpenapi /\ HasPaths
    /\ DOMAIN openapi_json.paths = Paths
    /\ openapi_json.paths[PathA] = [get |-> OpPlain]
    /\ openapi_json.paths[PathB] = [get |-> OpUnknownType]
    /\ error = Raised("TypeError")

\* C5: once the request of a leaf command has its response, whatever the
\* status code, its text is what the process printed and the run ends without
\* error; the run ends with an error exactly when the transport failed.
C5_AnyStatusPrinted ==
    (pc = "exit" /\ InvokerRequests # {})
        => IF response.fault
           THEN error = Raised("ConnectError") /\ stdout = <<>>
           ELSE error = NoError /\ stdout = <<response.text>>

\* A leaf command got a 404 and printed its body.
C5_Witness ==
    /\ pc = "exit"
    /\ InvokerRequests # {}
    /\ ~response.fault
    /\ response.status_code = 404
    /\ stdout = <<response.text>>
    /\ error = NoError

\* The method groups of the tree.
MethodGroups == DOMAIN main.commands \ {"meta"}

\* C6: the tree has one group per method that occurs in the description, and
\* the group of a method holds one leaf per path that declares it, named by
\* the path, and nothing else.
C6_Grouping ==
    main # NoTree =>
        LET paths == openapi_json.paths IN
        /\ "meta" \in DOMAIN main.commands
        /\ MethodGroups = UNION {DOMAIN paths[p] : p \in DOMAIN paths}
        /\ \A m \in MethodGroups :
              /\ main.commands[m].name = m
              /\ DOMAIN main.commands[m].commands
                     = {p \in DOMAIN paths : m \in DOMAIN paths[p]}
              /\ \A p \in DOMAIN main.commands[m].commands :
                    /\ main.commands[m].commands[p].name = p
                    /\ main.commands[m].commands[p].path = p
                    /\ main.commands[m].commands[p].method = m

\* The tree of GET /a, GET /b/{a}, POST /a: a get group of two leaves and a
\* post group of one.
C6_Witness ==
    /\ main # NoTree
    /\ MethodGroups = {"get", "post"}
    /\ DOMAIN main.commands["get"].commands = {PathA, PathB}
    /\ DOMAIN main.commands["post"].commands = {PathA}

\* C7: create_cli issues the one request for the description before anything
\* else is issued; func issues at most one request; the version command none.
C7_OneFetch ==
    /\ pc = "start" => requests = <<>>
    /\ pc # "start" =>
         /\ requests # <<>>
         /\ requests[1] = FetchRequest
         /\ FetcherRequests = {1}
    /\ Cardinality(InvokerRequests) <= 1
    /\ argv.group = "meta" => InvokerRequests = {}

\* A leaf command has issued its request after the fetch and got a 200.
C7_Witness ==
    /\ pc = "exit"
    /\ Len(requests) = 2
    /\ requests[2].by = "func"
    /\ ~response.fault
    /\ response.status_code = 200

\* C10 as stated: a description complete but for an empty `paths` gets a tree
\* with no method group and the version command.
C10_EmptyPaths ==
    (/\ openapi_json # NoDoc
     /\ HasTitle /\ HasVersion /\ HasOpenapi /\ HasPaths
     /\ DOMAIN openapi_json.paths = {})
        => /\ main # NoTree
           /\ DOMAIN main.commands = {"meta"}
           /\ <<"version">> \in DOMAIN main.commands["meta"].commands

---------------------------------------------------------------------------
(* Properties of the options (SpecOptions).                                *)

\* The command line names a leaf command.
LeafNamed == argv.group \notin {"", "meta"}

\* The parameters of the operation the command line names.
NamedParameters == openapi_json.paths[argv.name][argv.group].parameters

RequiredNoDefault(parameter) ==
    /\ "required" \in DOMAIN parameter
    /\ parameter.required
    /\ "default" \notin DOMAIN parameter.schema

DefaultNoRequired(parameter) ==
    /\ "required" \notin DOMAIN parameter
    /\ "default" \in DOMAIN parameter.schema

\* The command line names a leaf and leaves out the option of one of its
\* parameters that is required and has no default.
OmitsRequired ==
    /\ LeafNamed
    /\ \E i \in 1..Len(NamedParameters) :
          /\ RequiredNoDefault(NamedParameters[i])
          /\ NamedParameters[i].name \notin DOMAIN argv.options

UsageErrors == {"MissingParameter", "BadParameter"}

\* C4 as stated: a command line without the option of a required parameter
\* that has no default is rejected before any request is issued.
C4_NoNetworkCall ==
    OmitsRequired
        => (pc = "exit" /\ error.kind \in UsageErrors /\ requests = <<>>)

\* C4, amended: such a command line is rejected by the parse, the callback is
\* not called and func issues no request; the one request issued by then is
\* the fetch of the description.
C4_NoInvokerCall ==
    OmitsRequired
        => /\ pc = "exit"
           /\ error.kind \in UsageErrors
           /\ command = NoCommand
           /\ requests = <<FetchRequest>>

\* A command line without the required option "a" was rejected for it.
C4_Witness ==
    /\ OmitsRequired
    /\ error = [kind |-> "MissingParameter", param |-> "a"]
    /\ requests = <<FetchRequest>>

\* The option made of the i-th parameter of a leaf of the tree.
OptionOf(m, p, i) == main.commands[m].commands[p].options[i]

\* The parameters with a default and no `required`, as (method, path, index).
DefaultedParameters ==
    {mpi \in MethodGroups \X (DOMAIN openapi_json.paths) \X {1, 2} :
        /\ mpi[2] \in DOMAIN main.commands[mpi[1]].commands
        /\ mpi[3] <= Len(main.commands[mpi[1]].commands[mpi[2]].parameters)
        /\ DefaultNoRequired(main.commands[mpi[1]].commands[mpi[2]].parameters[mpi[3]])}

\* The callback of the leaf the command line names has been called.
Called == LeafNamed /\ command # NoCommand

\* The command line names the leaf and leaves the option of the name out.
Unset(m, p, name) ==
    /\ argv.group = m
    /\ argv.name = p
    /\ name \notin DOMAIN argv.options

\* C9 as stated: the option of a parameter with a default and no `required`
\* has its required flag false and the default as its value when unset.
C9_OptionalFlag ==
    main # NoTree =>
        \A mpi \in DefaultedParameters :
            LET option == OptionOf(mpi[1], mpi[2], mpi[3]) IN
            /\ ~option.required
            /\ (Called /\ Unset(mpi[1], mpi[2], option.name))
                 => kwargs[option.name] = option.default

\* C9, amended: that option has its required flag true and the default D of
\* the schema; a command line without it is not rejected for it, and func is
\* called with D as its value.
C9_DefaultFills ==
    main # NoTree =>
        \A mpi \in DefaultedParameters :
            LET option == OptionOf(mpi[1], mpi[2], mpi[3])
                parameter == main.commands[mpi[1]].commands[mpi[2]].parameters[mpi[3]]
            IN
            /\ option.required
            /\ option.default = parameter.schema.default
            /\ Unset(mpi[1], mpi[2], option.name)
                 => /\ error # [kind |-> "MissingParameter", param |-> option.name]
                    /\ Called => kwargs[option.name] = parameter.schema.default

\* func was called without "a" on the command line, with the default of "a".
C9_Witness ==
    /\ pc = "request"
    /\ Len(NamedParameters) = 1
    /\ DefaultNoRequired(NamedParameters[1])
    /\ NamedParameters[1].schema = [type |-> "integer", default |-> IntV(4)]
    /\ argv.options = EmptyDict
    /\ kwargs["a"] = IntV(4)

=============================================================================
